---- MODULE Spec2Model ----
(***************************************************************************)
(* A model of scoped-vec (src/src/lib.rs): a tree of append-only vectors.  *)
(* A ScopedVec is a pair of Arcs created together by new() and always      *)
(* cloned together by derive(Clone); the pair is modelled as one node id   *)
(* with two cells, inner[n] (Vec<T>) and children[n] (Vec<ScopedVec<T>>),  *)
(* each behind its own RwLock.  Items yielded by the iterator are          *)
(* references &T into a node's Vec, modelled as <<node, index>>.           *)
(***************************************************************************)
EXTENDS Integers, Sequences, FiniteSets, TLC

\* ---- bounds -------------------------------------------------------------
MaxNodes == 3      \* nodes ever created
MaxPush == 2       \* calls of push
MaxClones == 1     \* cloned handles the callers keep at a time
NumThreads == 2
MaxCalls == 3      \* calls the threads make in the runs checked for progress

Nodes == 1..MaxNodes
\* T: the k-th call of push pushes the value k, so that every element can be
\* told from every other; contains is also asked for 0, which is never pushed
Values == 1..MaxPush
Probes == 0..MaxPush
\* slot <<n, k>>: the place where callers keep the handle that new() or
\* scope() returned for node n (k = 1), or a clone of a handle kept for n
Slots == Nodes \X (1..(1 + MaxClones))
Threads == 1..NumThreads
None == -1

VARIABLES
    nalloc,      \* number of nodes created so far by ScopedVec::new()
    npush,       \* number of calls of push so far
    live,        \* nodes whose Arcs still have a strong reference
    inner,       \* inner[n]: the Vec<T> behind ScopedVec.inner
    children,    \* children[n]: the Vec<ScopedVec<T>> behind ScopedVec.children
    innerLock,   \* RwLock of inner[n]: [readers |-> Nat, writer |-> BOOLEAN]
    childLock,   \* RwLock of children[n]
    handle,      \* handle[s]: the ScopedVec value a caller holds in slot s, or None
    pc,          \* pc[t]: position of thread t inside its current operation
    self,        \* self[t]: slot of the ScopedVec thread t is operating on
    arg,         \* arg[t]: the `val` argument of push / contains
    new,         \* new[t]: the local `new` of scope()
    op,          \* op[t]: "iter" or "contains" while a ScopedVecIterator is alive
    stack,       \* stack[t]: live ScopedVecIterators, outermost first
    pending,     \* pending[t]: the vec ScopedVecIterator::new is being run on
    yielded,     \* yielded[t]: the items next() has returned so far
    exhausted,   \* exhausted[t]: next() has returned None
    ret,         \* ret[t]: value contains() is returning
    parent,      \* parent[n]: the node whose scope() created n (None for the root)
    ncalls,      \* number of calls made so far, in the runs where calls are counted
    policy,      \* priority policy of the RwLocks, which std leaves to the platform:
                 \* "any", or "writers_first" (a waiting writer holds readers off)
    views        \* views[t]: history of the traversal iter() made for thread t: the
                 \* visible sequences its handle has had from the call of iter()
                 \* up to the None of next()
VARIABLE
    atLock       \* atLock[t]: the visible sequence that handle had at the instant
                 \* iter() held both locks of its node

vars == <<nalloc, npush, live, inner, children, innerLock, childLock, handle,
          pc, self, arg, new, op, stack, pending, yielded, exhausted, ret, parent,
          ncalls, policy, views, atLock>>

heapVars == <<nalloc, npush, live, inner, children, parent>>
lockVars == <<innerLock, childLock>>
slotVars == <<handle>>
iterVars == <<op, stack, pending, yielded, exhausted>>

\* ---- RwLock -------------------------------------------------------------
Unlocked == [readers |-> 0, writer |-> FALSE]

\* RwLock::read succeeds only while no writer holds the lock
CanRead(l) == ~l.writer
\* a write lock that waits for writers only
CanWriteOverReaders(l) == ~l.writer
\* RwLock::write succeeds only while nobody holds the lock
CanWrite(l) == ~l.writer /\ l.readers = 0
\* a thread is inside write() on the element lock / the child lock of node n
WaitingPush(n) == \E u \in Threads : pc[u] = "push_write" /\ handle[self[u]] = n
WaitingScope(n) == \E u \in Threads : pc[u] = "scope_write" /\ handle[self[u]] = n
AcquireRead(l) == [l EXCEPT !.readers = @ + 1]
ReleaseRead(l) == [l EXCEPT !.readers = @ - 1]
AcquireWrite(l) == [l EXCEPT !.writer = TRUE]
ReleaseWrite(l) == [l EXCEPT !.writer = FALSE]

\* ---- Arc ----------------------------------------------------------------
\* Arc::strong_count of node n: handles in slots, locals of scope() in
\* progress, and clones stored in the children Vec of a live node
StrongCount(n, lv, hs, nw) ==
    Cardinality({s \in Slots : hs[s] = n})
    + Cardinality({t \in Threads : nw[t] = n})
    + Cardinality({x \in lv \X (1..MaxNodes) :
                      x[2] <= Len(children[x[1]]) /\ children[x[1]][x[2]] = n})

RECURSIVE DropArcs(_, _, _)
\* a parent that owns its children outright: they die with it, counted or not
DropArcsOwned(lv, hs, nw) ==
    LET dead == {n \in lv : StrongCount(n, lv, hs, nw) = 0}
    IN IF dead = {} THEN lv
       ELSE DropArcs(lv \ (dead \cup {m \in lv : parent[m] \in dead}), hs, nw)

\* dropping the last Arc drops the Vecs, which drops the child handles in turn
DropArcs(lv, hs, nw) ==
    LET dead == {n \in lv : StrongCount(n, lv, hs, nw) = 0}
    IN IF dead = {} THEN lv ELSE DropArcs(lv \ dead, hs, nw)

\* ---- borrows ------------------------------------------------------------
\* push and scope take &mut self, iter / contains / clone take &self, and
\* drop takes the value: the borrow checker admits no other use of a slot
\* while it is mutably borrowed, and no drop while it is borrowed at all
MutPcs == {"push_write", "push_push", "scope_write", "scope_push"}
Borrowed(s) == \E t \in Threads : pc[t] # "idle" /\ self[t] = s
MutBorrowed(s) == \E t \in Threads : pc[t] \in MutPcs /\ self[t] = s
\* the places free to keep one more handle to node n
FreeSlots(n) == {k \in 2..(1 + MaxClones) : handle[<<n, k>>] = None}
Clones == {s \in Slots : s[2] > 1 /\ handle[s] # None}
MinSlot(n) == <<n, CHOOSE k \in FreeSlots(n) : \A j \in FreeSlots(n) : k <= j>>

\* ---- the visible sequence and the creation history -------------------------
\* the references to the elements of node n, in the order of the Vec
OwnItems(n) == [i \in 1..Len(inner[n]) |-> <<n, i>>]

\* the visible sequence of a handle to node n: its own elements, then the
\* visible sequence of each child in the order of the children Vec
RECURSIVE Visible(_), VisibleAll(_)
Visible(n) == OwnItems(n) \o VisibleAll(children[n])
VisibleAll(cs) == IF cs = <<>> THEN <<>> ELSE Visible(Head(cs)) \o VisibleAll(Tail(cs))

\* the visible sequences that thread t's traversal has seen, after a step
\* that changed a sequence
Seen(t) ==
    IF op[t] = "iter" /\ ~exhausted[t]
    THEN views[t] \cup {Visible(handle[self[t]])'}
    ELSE views[t]

\* ScopedVec::new(): a node with two empty, unlocked cells
RootNode == 1

\* let root = ScopedVec::new();
Init ==
    /\ nalloc = 1
    /\ npush = 0
    /\ live = {RootNode}
    /\ inner = [n \in Nodes |-> <<>>]
    /\ children = [n \in Nodes |-> <<>>]
    /\ innerLock = [n \in Nodes |-> Unlocked]
    /\ childLock = [n \in Nodes |-> Unlocked]
    /\ handle = [s \in Slots |-> IF s = <<RootNode, 1>> THEN RootNode ELSE None]
    /\ pc = [t \in Threads |-> "idle"]
    /\ self = [t \in Threads |-> None]
    /\ arg = [t \in Threads |-> None]
    /\ new = [t \in Threads |-> None]
    /\ op = [t \in Threads |-> "none"]
    /\ stack = [t \in Threads |-> <<>>]
    /\ pending = [t \in Threads |-> None]
    /\ yielded = [t \in Threads |-> <<>>]
    /\ exhausted = [t \in Threads |-> FALSE]
    /\ ret = [t \in Threads |-> FALSE]
    /\ parent = [n \in Nodes |-> None]
    /\ ncalls = 0
    /\ policy = "any"
    /\ views = [t \in Threads |-> {}]
    /\ atLock = [t \in Threads |-> None]

\* ---- Clone, Drop --------------------------------------------------------
\* a deep clone: the clone gets cells of its own
CloneHandleDeep(h) == IF nalloc < MaxNodes THEN nalloc + 1 ELSE h

\* #[derive(Clone)]: both Arcs are cloned, the clone refers to the same node
CloneHandle(h) == h

\* a clone that enters itself in the child list of its node
CloneLinked(s) ==
    /\ handle[s] # None
    /\ ~MutBorrowed(s)
    /\ Cardinality(Clones) < MaxClones
    /\ handle' = [handle EXCEPT ![MinSlot(s[1])] = CloneHandle(handle[s])]
    /\ children' = [children EXCEPT ![handle[s]] = Append(@, handle[s])]
    /\ UNCHANGED <<nalloc, npush, live, inner, parent, lockVars, pc, self, arg, new, iterVars, ret, views, ncalls, policy, atLock>>

Clone(s) ==
    /\ handle[s] # None
    /\ ~MutBorrowed(s)
    /\ Cardinality(Clones) < MaxClones
    /\ handle' = [handle EXCEPT ![MinSlot(s[1])] = CloneHandle(handle[s])]
    /\ UNCHANGED <<heapVars, lockVars, pc, self, arg, new, iterVars, ret, views, ncalls, policy, atLock>>

\* drop(handle): the Arcs' counts go down; nodes left without a reference die
Drop(s) ==
    /\ handle[s] # None
    /\ ~Borrowed(s)
    /\ handle' = [handle EXCEPT ![s] = None]
    /\ live' = DropArcs(live, handle', new)
    /\ inner' = [n \in Nodes |-> IF n \in live \ live' THEN <<>> ELSE inner[n]]
    /\ children' = [n \in Nodes |-> IF n \in live \ live' THEN <<>> ELSE children[n]]
    /\ UNCHANGED <<nalloc, npush, parent, lockVars, pc, self, arg, new, iterVars, ret, views, ncalls, policy, atLock>>

\* ---- ScopedVec::push ----------------------------------------------------
\* self.inner.write().unwrap(): the call returns from write() once the lock
\* is free
PushWrite(t, s) ==
    /\ pc[t] = "idle"
    /\ handle[s] # None
    /\ ~Borrowed(s)
    /\ npush < MaxPush
    /\ CanWrite(innerLock[handle[s]])
    /\ innerLock' = [innerLock EXCEPT ![handle[s]] = AcquireWrite(@)]
    /\ pc' = [pc EXCEPT ![t] = "push_push"]
    /\ self' = [self EXCEPT ![t] = s]
    /\ npush' = npush + 1
    /\ arg' = [arg EXCEPT ![t] = npush + 1]
    /\ UNCHANGED <<nalloc, live, inner, children, parent, childLock, slotVars, new, iterVars, ret, views, ncalls, policy, atLock>>

\* the value put in front: insert(0, val)
PushPushFront(t) ==
    /\ pc[t] = "push_push"
    /\ inner' = [inner EXCEPT ![handle[self[t]]] = <<arg[t]>> \o @]
    /\ innerLock' = [innerLock EXCEPT ![handle[self[t]]] = ReleaseWrite(@)]
    /\ pc' = [pc EXCEPT ![t] = "idle"]
    /\ self' = [self EXCEPT ![t] = None]
    /\ arg' = [arg EXCEPT ![t] = None]
    /\ UNCHANGED <<nalloc, npush, live, children, parent, childLock, slotVars, new, iterVars, ret, ncalls, policy, atLock>>
    /\ views' = [u \in Threads |-> Seen(u)]

\* the write guard leaked: the value is appended, the lock never released
PushPushHolding(t) ==
    /\ pc[t] = "push_push"
    /\ inner' = [inner EXCEPT ![handle[self[t]]] = Append(@, arg[t])]
    /\ pc' = [pc EXCEPT ![t] = "idle"]
    /\ self' = [self EXCEPT ![t] = None]
    /\ arg' = [arg EXCEPT ![t] = None]
    /\ UNCHANGED <<nalloc, npush, live, children, parent, lockVars, slotVars, new, iterVars, ret, ncalls, policy, atLock>>
    /\ views' = [u \in Threads |-> Seen(u)]

\* .push(val); the write guard is dropped at the end of the statement
PushPush(t) ==
    /\ pc[t] = "push_push"
    /\ inner' = [inner EXCEPT ![handle[self[t]]] = Append(@, arg[t])]
    /\ innerLock' = [innerLock EXCEPT ![handle[self[t]]] = ReleaseWrite(@)]
    /\ pc' = [pc EXCEPT ![t] = "idle"]
    /\ self' = [self EXCEPT ![t] = None]
    /\ arg' = [arg EXCEPT ![t] = None]
    /\ UNCHANGED <<nalloc, npush, live, children, parent, childLock, slotVars, new, iterVars, ret, ncalls, policy, atLock>>
    /\ views' = [u \in Threads |-> Seen(u)]

\* ---- ScopedVec::scope ---------------------------------------------------
\* let new = ScopedVec::new(); self.children.write().unwrap()
\* a scope that waits for the element cell of the node as well
ScopeWriteWholeNode(t, s) ==
    /\ pc[t] = "idle"
    /\ handle[s] # None
    /\ ~Borrowed(s)
    /\ nalloc < MaxNodes
    /\ CanWrite(childLock[handle[s]])
    /\ CanWrite(innerLock[handle[s]])
    /\ nalloc' = nalloc + 1
    /\ live' = live \cup {nalloc + 1}
    /\ new' = [new EXCEPT ![t] = nalloc + 1]
    /\ parent' = [parent EXCEPT ![nalloc + 1] = handle[s]]
    /\ childLock' = [childLock EXCEPT ![handle[s]] = AcquireWrite(@)]
    /\ pc' = [pc EXCEPT ![t] = "scope_push"]
    /\ self' = [self EXCEPT ![t] = s]
    /\ UNCHANGED <<npush, inner, children, innerLock, slotVars, arg, iterVars, ret, views, ncalls, policy, atLock>>

ScopeWrite(t, s) ==
    /\ pc[t] = "idle"
    /\ handle[s] # None
    /\ ~Borrowed(s)
    /\ nalloc < MaxNodes
    /\ CanWrite(childLock[handle[s]])
    /\ nalloc' = nalloc + 1
    /\ live' = live \cup {nalloc + 1}
    /\ new' = [new EXCEPT ![t] = nalloc + 1]
    /\ parent' = [parent EXCEPT ![nalloc + 1] = handle[s]]
    /\ childLock' = [childLock EXCEPT ![handle[s]] = AcquireWrite(@)]
    /\ pc' = [pc EXCEPT ![t] = "scope_push"]
    /\ self' = [self EXCEPT ![t] = s]
    /\ UNCHANGED <<npush, inner, children, innerLock, slotVars, arg, iterVars, ret, views, ncalls, policy, atLock>>

\* the link made the wrong way round: new.children.push(self.clone())
ScopePushReversed(t) ==
    /\ pc[t] = "scope_push"
    /\ children' = [children EXCEPT ![new[t]] = Append(@, handle[self[t]])]
    /\ childLock' = [childLock EXCEPT ![handle[self[t]]] = ReleaseWrite(@)]
    /\ handle' = [handle EXCEPT ![<<new[t], 1>>] = new[t]]
    /\ new' = [new EXCEPT ![t] = None]
    /\ pc' = [pc EXCEPT ![t] = "idle"]
    /\ self' = [self EXCEPT ![t] = None]
    /\ UNCHANGED <<nalloc, npush, live, inner, parent, innerLock, arg, iterVars, ret, views, ncalls, policy, atLock>>

\* the new scope linked under the scope created last, not under self
ScopePushUnderLast(t) ==
    /\ pc[t] = "scope_push"
    /\ children' = [children EXCEPT ![new[t] - 1] = Append(@, new[t])]
    /\ childLock' = [childLock EXCEPT ![handle[self[t]]] = ReleaseWrite(@)]
    /\ handle' = [handle EXCEPT ![<<new[t], 1>>] = new[t]]
    /\ new' = [new EXCEPT ![t] = None]
    /\ pc' = [pc EXCEPT ![t] = "idle"]
    /\ self' = [self EXCEPT ![t] = None]
    /\ UNCHANGED <<nalloc, npush, live, inner, parent, innerLock, arg, iterVars, ret, views, ncalls, policy, atLock>>

\* the child list assigned instead of pushed to: *children = vec![new.clone()]
ScopePushReplace(t) ==
    /\ pc[t] = "scope_push"
    /\ children' = [children EXCEPT ![handle[self[t]]] = <<CloneHandle(new[t])>>]
    /\ childLock' = [childLock EXCEPT ![handle[self[t]]] = ReleaseWrite(@)]
    /\ handle' = [handle EXCEPT ![<<new[t], 1>>] = new[t]]
    /\ new' = [new EXCEPT ![t] = None]
    /\ pc' = [pc EXCEPT ![t] = "idle"]
    /\ self' = [self EXCEPT ![t] = None]
    /\ UNCHANGED <<nalloc, npush, live, inner, parent, innerLock, arg, iterVars, ret, views, ncalls, policy, atLock>>

\* the write guard leaked: the child is appended, the lock never released
ScopePushHolding(t) ==
    /\ pc[t] = "scope_push"
    /\ children' = [children EXCEPT ![handle[self[t]]] = Append(@, CloneHandle(new[t]))]
    /\ childLock' = childLock
    /\ handle' = [handle EXCEPT ![<<new[t], 1>>] = new[t]]
    /\ new' = [new EXCEPT ![t] = None]
    /\ pc' = [pc EXCEPT ![t] = "idle"]
    /\ self' = [self EXCEPT ![t] = None]
    /\ UNCHANGED <<nalloc, npush, live, inner, parent, innerLock, arg, iterVars, ret, views, ncalls, policy, atLock>>

\* .push(new.clone()); new -- the caller keeps the returned handle
ScopePush(t) ==
    /\ pc[t] = "scope_push"
    /\ children' = [children EXCEPT ![handle[self[t]]] = Append(@, CloneHandle(new[t]))]
    /\ childLock' = [childLock EXCEPT ![handle[self[t]]] = ReleaseWrite(@)]
    /\ handle' = [handle EXCEPT ![<<new[t], 1>>] = new[t]]
    /\ new' = [new EXCEPT ![t] = None]
    /\ pc' = [pc EXCEPT ![t] = "idle"]
    /\ self' = [self EXCEPT ![t] = None]
    /\ UNCHANGED <<nalloc, npush, live, inner, parent, innerLock, arg, iterVars, ret, views, ncalls, policy, atLock>>

\* ---- ScopedVecIterator --------------------------------------------------
\* One live ScopedVecIterator: the node whose guards it owns, and the two
\* slice iterators of its chain: guards.inner.iter() over (pos, end] and
\* guards.children.iter() over (cpos, cend]
\* a slice iterator whose end was taken one push too early
FrameStale(n) == [vec |-> n, pos |-> 0,
                  end |-> IF inner[n] = <<>> THEN 0 ELSE Len(inner[n]) - 1,
                  cpos |-> 0, cend |-> Len(children[n])]
\* a children iterator that stops before the last child
FrameNoLastChild(n) == [vec |-> n, pos |-> 0, end |-> Len(inner[n]), cpos |-> 0,
                        cend |-> IF children[n] = <<>> THEN 0 ELSE Len(children[n]) - 1]
Frame(n) == [vec |-> n, pos |-> 0, end |-> Len(inner[n]),
             cpos |-> 0, cend |-> Len(children[n])]
InnerDone(f) == f.pos >= f.end
ChildrenDone(f) == f.cpos >= f.cend
Last(q) == q[Len(q)]
Front(q) == SubSeq(q, 1, Len(q) - 1)
SetLast(q, f) == [q EXCEPT ![Len(q)] = f]

\* the item a reference &T points to
Deref(item) == inner[item[1]][item[2]]

\* One call of next() on the outermost iterator, run up to its return or to
\* the point where flatten has to build the iterator of the next child:
\*   chain: the items of inner first, then the flattened children;
\*   flatten: a nested iterator that returns None is dropped, then the next
\*   child is taken from children.iter() and mapped through ScopedVec::iter
RECURSIVE Poll(_)
\* chain built the wrong way round: the children before the node's own items
PollChildrenFirst(frames) ==
    LET f == Last(frames) IN
    IF ~ChildrenDone(f)
    THEN [kind |-> "descend", stack |-> SetLast(frames, [f EXCEPT !.cpos = @ + 1]),
          items |-> <<>>, child |-> children[f.vec][f.cpos + 1]]
    ELSE IF ~InnerDone(f)
    THEN [kind |-> "some", stack |-> SetLast(frames, [f EXCEPT !.pos = @ + 1]),
          items |-> << <<f.vec, f.pos + 1>> >>, child |-> None]
    ELSE IF Len(frames) > 1
    THEN Poll(Front(frames))
    ELSE [kind |-> "none", stack |-> frames, items |-> <<>>, child |-> None]

\* a traversal that is not recursive: the children of a child are left out
PollShallow(frames) ==
    LET f == Last(frames) IN
    IF ~InnerDone(f)
    THEN [kind |-> "some", stack |-> SetLast(frames, [f EXCEPT !.pos = @ + 1]),
          items |-> << <<f.vec, f.pos + 1>> >>, child |-> None]
    ELSE IF ~ChildrenDone(f) /\ Len(frames) = 1
    THEN [kind |-> "descend", stack |-> SetLast(frames, [f EXCEPT !.cpos = @ + 1]),
          items |-> <<>>, child |-> children[f.vec][f.cpos + 1]]
    ELSE IF Len(frames) > 1
    THEN Poll(Front(frames))
    ELSE [kind |-> "none", stack |-> frames, items |-> <<>>, child |-> None]

\* flatten that keeps the finished nested iterator while it builds the
\* iterator of the next child
PollKeepSibling(frames) ==
    LET f == Last(frames) IN
    IF ~InnerDone(f)
    THEN [kind |-> "some", stack |-> SetLast(frames, [f EXCEPT !.pos = @ + 1]),
          items |-> << <<f.vec, f.pos + 1>> >>, child |-> None]
    ELSE IF ~ChildrenDone(f)
    THEN [kind |-> "descend", stack |-> SetLast(frames, [f EXCEPT !.cpos = @ + 1]),
          items |-> <<>>, child |-> children[f.vec][f.cpos + 1]]
    ELSE IF Len(frames) > 1
    THEN LET p == frames[Len(frames) - 1] IN
         IF ~ChildrenDone(p)
         THEN [kind |-> "descend",
               stack |-> [frames EXCEPT ![Len(frames) - 1] = [p EXCEPT !.cpos = @ + 1]],
               items |-> <<>>, child |-> children[p.vec][p.cpos + 1]]
         ELSE Poll(Front(frames))
    ELSE [kind |-> "none", stack |-> frames, items |-> <<>>, child |-> None]

\* an iterator that lets go of its own guards when it returns None
PollReleaseAtEnd(frames) ==
    IF frames = <<>>
    THEN [kind |-> "none", stack |-> <<>>, items |-> <<>>, child |-> None]
    ELSE
    LET f == Last(frames) IN
    IF ~InnerDone(f)
    THEN [kind |-> "some", stack |-> SetLast(frames, [f EXCEPT !.pos = @ + 1]),
          items |-> << <<f.vec, f.pos + 1>> >>, child |-> None]
    ELSE IF ~ChildrenDone(f)
    THEN [kind |-> "descend", stack |-> SetLast(frames, [f EXCEPT !.cpos = @ + 1]),
          items |-> <<>>, child |-> children[f.vec][f.cpos + 1]]
    ELSE IF Len(frames) > 1
    THEN Poll(Front(frames))
    ELSE [kind |-> "none", stack |-> <<>>, items |-> <<>>, child |-> None]

\* a slice iterator that steps over every second element
PollStride(frames) ==
    LET f == Last(frames) IN
    IF ~InnerDone(f)
    THEN [kind |-> "some", stack |-> SetLast(frames, [f EXCEPT !.pos = @ + 2]),
          items |-> << <<f.vec, f.pos + 1>> >>, child |-> None]
    ELSE IF ~ChildrenDone(f)
    THEN [kind |-> "descend", stack |-> SetLast(frames, [f EXCEPT !.cpos = @ + 1]),
          items |-> <<>>, child |-> children[f.vec][f.cpos + 1]]
    ELSE IF Len(frames) > 1
    THEN Poll(Front(frames))
    ELSE [kind |-> "none", stack |-> frames, items |-> <<>>, child |-> None]

Poll(frames) ==
    LET f == Last(frames) IN
    IF ~InnerDone(f)
    THEN [kind |-> "some", stack |-> SetLast(frames, [f EXCEPT !.pos = @ + 1]),
          items |-> << <<f.vec, f.pos + 1>> >>, child |-> None]
    ELSE IF ~ChildrenDone(f)
    THEN [kind |-> "descend", stack |-> SetLast(frames, [f EXCEPT !.cpos = @ + 1]),
          items |-> <<>>, child |-> children[f.vec][f.cpos + 1]]
    ELSE IF Len(frames) > 1
    THEN Poll(Front(frames))
    ELSE [kind |-> "none", stack |-> frames, items |-> <<>>, child |-> None]

\* any(|f| *f == *val): next() is called until an item matches or None comes
RECURSIVE AnyEq(_, _, _)
\* contains that looks at the node's own elements only
AnyEqOwn(frames, val, seen) ==
    LET r == Poll(frames) IN
    IF r.kind = "some" /\ Deref(r.items[1]) # val
    THEN AnyEq(r.stack, val, seen \o r.items)
    ELSE IF r.kind = "descend"
    THEN [kind |-> "none", stack |-> frames, items |-> seen, child |-> None]
    ELSE [r EXCEPT !.items = seen \o @]

AnyEq(frames, val, seen) ==
    LET r == Poll(frames) IN
    IF r.kind = "some" /\ Deref(r.items[1]) # val
    THEN AnyEq(r.stack, val, seen \o r.items)
    ELSE [r EXCEPT !.items = seen \o @]

\* dropping ScopedVecIterators drops their guards
RECURSIVE ReleaseAll(_, _)
ReleaseAll(locks, frames) ==
    IF frames = <<>> THEN locks
    ELSE ReleaseAll([locks EXCEPT ![Head(frames).vec] = ReleaseRead(@)], Tail(frames))

\* Thread t runs on inside next() / any() with the iterators `frames` alive
\* and the locks in state il, cl
Resume(t, frames, il, cl) ==
    LET r == IF op[t] = "contains" THEN AnyEq(frames, arg[t], <<>>) ELSE Poll(frames)
        gone == IF op[t] = "contains" /\ r.kind # "descend"
                THEN frames
                ELSE SubSeq(frames, Len(r.stack) + 1, Len(frames))
    IN  /\ yielded' = [yielded EXCEPT ![t] = @ \o r.items]
        /\ innerLock' = ReleaseAll(il, gone)
        /\ childLock' = ReleaseAll(cl, gone)
        /\ pending' = [pending EXCEPT ![t] = r.child]
        /\ IF r.kind = "descend"
           THEN /\ stack' = [stack EXCEPT ![t] = r.stack]
                /\ pc' = [pc EXCEPT ![t] = "new_inner"]
                /\ UNCHANGED <<exhausted, ret>>
           ELSE IF op[t] = "contains"
           THEN \* any() returns, the temporary iterator is dropped
                /\ stack' = [stack EXCEPT ![t] = <<>>]
                /\ pc' = [pc EXCEPT ![t] = "contains_ret"]
                /\ ret' = [ret EXCEPT ![t] = (r.kind = "some")]
                /\ UNCHANGED exhausted
           ELSE /\ stack' = [stack EXCEPT ![t] = r.stack]
                /\ pc' = [pc EXCEPT ![t] = "iter"]
                /\ exhausted' = [exhausted EXCEPT ![t] = (r.kind = "none")]
                /\ UNCHANGED ret

\* iter() / contains(): ScopedVecIterator::new(self), inner: vec.inner.read()
IterInnerRead(t, s, o, v) ==
    /\ pc[t] = "idle"
    /\ handle[s] # None
    /\ ~MutBorrowed(s)
    /\ CanRead(innerLock[handle[s]])
    /\ policy = "writers_first" => ~WaitingPush(handle[s])
    /\ innerLock' = [innerLock EXCEPT ![handle[s]] = AcquireRead(@)]
    /\ pc' = [pc EXCEPT ![t] = "new_children"]
    /\ self' = [self EXCEPT ![t] = s]
    /\ op' = [op EXCEPT ![t] = o]
    /\ arg' = [arg EXCEPT ![t] = v]
    /\ pending' = [pending EXCEPT ![t] = handle[s]]
    /\ views' = [views EXCEPT ![t] = IF o = "iter" THEN {Visible(handle[s])} ELSE {}]
    /\ UNCHANGED <<heapVars, childLock, slotVars, new, stack, yielded, exhausted, ret, ncalls, policy, atLock>>

Iter(t, s) == IterInnerRead(t, s, "iter", None)
Contains(t, s, v) == IterInnerRead(t, s, "contains", v)

\* children: vec.children.read(), then the closure builds the chain; iter()
\* returns the new iterator, any() and flatten go on to call its next()
NewChildrenRead(t) ==
    /\ pc[t] = "new_children"
    /\ CanRead(childLock[pending[t]])
    /\ policy = "writers_first" => ~WaitingScope(pending[t])
    /\ LET cl == [childLock EXCEPT ![pending[t]] = AcquireRead(@)]
           frames == Append(stack[t], Frame(pending[t]))
       IN IF stack[t] = <<>> /\ op[t] = "iter"
          THEN /\ childLock' = cl
               /\ stack' = [stack EXCEPT ![t] = frames]
               /\ pending' = [pending EXCEPT ![t] = None]
               /\ pc' = [pc EXCEPT ![t] = "iter"]
               /\ UNCHANGED <<innerLock, yielded, exhausted, ret>>
          ELSE Resume(t, frames, innerLock, cl)
    /\ atLock' = IF stack[t] = <<>> /\ op[t] = "iter"
                 THEN [atLock EXCEPT ![t] = Visible(pending[t])]
                 ELSE atLock
    /\ UNCHANGED <<heapVars, slotVars, self, arg, new, op, views, ncalls, policy>>

\* a nested ScopedVecIterator::new run by flatten: inner: vec.inner.read()
NewInnerRead(t) ==
    /\ pc[t] = "new_inner"
    /\ CanRead(innerLock[pending[t]])
    /\ policy = "writers_first" => ~WaitingPush(pending[t])
    /\ innerLock' = [innerLock EXCEPT ![pending[t]] = AcquireRead(@)]
    /\ pc' = [pc EXCEPT ![t] = "new_children"]
    /\ UNCHANGED <<heapVars, childLock, slotVars, self, arg, new, iterVars, ret, views, ncalls, policy, atLock>>

\* let mut iter = ...; iter.next()
NextCall(t) ==
    /\ pc[t] = "iter"
    /\ Resume(t, stack[t], innerLock, childLock)
    /\ UNCHANGED <<heapVars, slotVars, self, arg, new, op, views, ncalls, policy, atLock>>

\* only the outermost guard holder released, the nested iterators leaked
DropIterOuter(t) ==
    /\ pc[t] = "iter"
    /\ innerLock' = ReleaseAll(innerLock, <<stack[t][1]>>)
    /\ childLock' = ReleaseAll(childLock, <<stack[t][1]>>)
    /\ stack' = [stack EXCEPT ![t] = <<>>]
    /\ yielded' = [yielded EXCEPT ![t] = <<>>]
    /\ exhausted' = [exhausted EXCEPT ![t] = FALSE]
    /\ pc' = [pc EXCEPT ![t] = "idle"]
    /\ op' = [op EXCEPT ![t] = "none"]
    /\ self' = [self EXCEPT ![t] = None]
    /\ views' = [views EXCEPT ![t] = {}]
    /\ atLock' = [atLock EXCEPT ![t] = None]
    /\ UNCHANGED <<heapVars, slotVars, arg, new, pending, ret, ncalls, policy>>

\* the caller's iterator goes out of scope
DropIter(t) ==
    /\ pc[t] = "iter"
    /\ innerLock' = ReleaseAll(innerLock, stack[t])
    /\ childLock' = ReleaseAll(childLock, stack[t])
    /\ stack' = [stack EXCEPT ![t] = <<>>]
    /\ yielded' = [yielded EXCEPT ![t] = <<>>]
    /\ exhausted' = [exhausted EXCEPT ![t] = FALSE]
    /\ pc' = [pc EXCEPT ![t] = "idle"]
    /\ op' = [op EXCEPT ![t] = "none"]
    /\ self' = [self EXCEPT ![t] = None]
    /\ views' = [views EXCEPT ![t] = {}]
    /\ atLock' = [atLock EXCEPT ![t] = None]
    /\ UNCHANGED <<heapVars, slotVars, arg, new, pending, ret, ncalls, policy>>

\* contains() hands its result to the caller
ContainsReturn(t) ==
    /\ pc[t] = "contains_ret"
    /\ pc' = [pc EXCEPT ![t] = "idle"]
    /\ op' = [op EXCEPT ![t] = "none"]
    /\ self' = [self EXCEPT ![t] = None]
    /\ arg' = [arg EXCEPT ![t] = None]
    /\ ret' = [ret EXCEPT ![t] = FALSE]
    /\ yielded' = [yielded EXCEPT ![t] = <<>>]
    /\ UNCHANGED <<heapVars, lockVars, slotVars, new, stack, pending, exhausted, views, ncalls, policy, atLock>>

\* ---- the calls taken apart: a call first, its first lock afterwards ------
\* the state after ScopedVec::new(), on a platform with either lock policy
InitLive ==
    /\ nalloc = 1
    /\ npush = 0
    /\ live = {RootNode}
    /\ inner = [n \in Nodes |-> <<>>]
    /\ children = [n \in Nodes |-> <<>>]
    /\ innerLock = [n \in Nodes |-> Unlocked]
    /\ childLock = [n \in Nodes |-> Unlocked]
    /\ handle = [s \in Slots |-> IF s = <<RootNode, 1>> THEN RootNode ELSE None]
    /\ pc = [t \in Threads |-> "idle"]
    /\ self = [t \in Threads |-> None]
    /\ arg = [t \in Threads |-> None]
    /\ new = [t \in Threads |-> None]
    /\ op = [t \in Threads |-> "none"]
    /\ stack = [t \in Threads |-> <<>>]
    /\ pending = [t \in Threads |-> None]
    /\ yielded = [t \in Threads |-> <<>>]
    /\ exhausted = [t \in Threads |-> FALSE]
    /\ ret = [t \in Threads |-> FALSE]
    /\ parent = [n \in Nodes |-> None]
    /\ ncalls = 0
    /\ policy \in {"any", "writers_first"}
    /\ views = [t \in Threads |-> {}]
    /\ atLock = [t \in Threads |-> None]

\* push(&mut self, val) is called; self.inner.write() is yet to return
PushCall(t, s) ==
    /\ pc[t] = "idle"
    /\ handle[s] # None
    /\ ~Borrowed(s)
    /\ npush < MaxPush
    /\ ncalls < MaxCalls
    /\ ncalls' = ncalls + 1
    /\ pc' = [pc EXCEPT ![t] = "push_write"]
    /\ self' = [self EXCEPT ![t] = s]
    /\ npush' = npush + 1
    /\ arg' = [arg EXCEPT ![t] = npush + 1]
    /\ UNCHANGED <<nalloc, live, inner, children, parent, lockVars, slotVars, new, iterVars, ret, views, policy, atLock>>

\* self.inner.write() returns the write guard
PushLock(t) ==
    /\ pc[t] = "push_write"
    /\ CanWrite(innerLock[handle[self[t]]])
    /\ innerLock' = [innerLock EXCEPT ![handle[self[t]]] = AcquireWrite(@)]
    /\ pc' = [pc EXCEPT ![t] = "push_push"]
    /\ UNCHANGED <<heapVars, childLock, slotVars, self, arg, new, iterVars, ret, views, ncalls, policy, atLock>>

\* scope(&mut self) is called: let new = ScopedVec::new();
\* self.children.write() is yet to return
ScopeCall(t, s) ==
    /\ pc[t] = "idle"
    /\ handle[s] # None
    /\ ~Borrowed(s)
    /\ nalloc < MaxNodes
    /\ ncalls < MaxCalls
    /\ ncalls' = ncalls + 1
    /\ nalloc' = nalloc + 1
    /\ live' = live \cup {nalloc + 1}
    /\ new' = [new EXCEPT ![t] = nalloc + 1]
    /\ parent' = [parent EXCEPT ![nalloc + 1] = handle[s]]
    /\ pc' = [pc EXCEPT ![t] = "scope_write"]
    /\ self' = [self EXCEPT ![t] = s]
    /\ UNCHANGED <<npush, inner, children, lockVars, slotVars, arg, iterVars, ret, views, policy, atLock>>

\* self.children.write() returns the write guard
ScopeLock(t) ==
    /\ pc[t] = "scope_write"
    /\ CanWrite(childLock[handle[self[t]]])
    /\ childLock' = [childLock EXCEPT ![handle[self[t]]] = AcquireWrite(@)]
    /\ pc' = [pc EXCEPT ![t] = "scope_push"]
    /\ UNCHANGED <<heapVars, innerLock, slotVars, self, arg, new, iterVars, ret, views, ncalls, policy, atLock>>

\* iter() or contains() is called: ScopedVecIterator::new(self) is entered,
\* vec.inner.read() is yet to return
IterCall(t, s, o, v) ==
    /\ pc[t] = "idle"
    /\ handle[s] # None
    /\ ~MutBorrowed(s)
    /\ ncalls < MaxCalls
    /\ ncalls' = ncalls + 1
    /\ pc' = [pc EXCEPT ![t] = "new_inner"]
    /\ self' = [self EXCEPT ![t] = s]
    /\ op' = [op EXCEPT ![t] = o]
    /\ arg' = [arg EXCEPT ![t] = v]
    /\ pending' = [pending EXCEPT ![t] = handle[s]]
    /\ views' = [views EXCEPT ![t] = IF o = "iter" THEN {Visible(handle[s])} ELSE {}]
    /\ UNCHANGED <<heapVars, lockVars, slotVars, new, stack, yielded, exhausted, ret, policy, atLock>>

\* ---- specifications -----------------------------------------------------
\* Spec: the threads work through the handles that new() and scope() returned
Next ==
    \/ \E s \in Slots : Drop(s)
    \/ \E t \in Threads, s \in Slots : PushWrite(t, s)
    \/ \E t \in Threads : PushPush(t)
    \/ \E t \in Threads, s \in Slots : ScopeWrite(t, s)
    \/ \E t \in Threads : ScopePush(t)
    \/ \E t \in Threads, s \in Slots : Iter(t, s)
    \/ \E t \in Threads, s \in Slots, v \in Probes : Contains(t, s, v)
    \/ \E t \in Threads : NewChildrenRead(t)
    \/ \E t \in Threads : NewInnerRead(t)
    \/ \E t \in Threads : NextCall(t)
    \/ \E t \in Threads : DropIter(t)
    \/ \E t \in Threads : ContainsReturn(t)

Spec == Init /\ [][Next]_vars

\* SpecAlias: the threads push, scope and iterate through handles and clones
\* of them, and keep every handle
NextAlias ==
    \/ \E s \in Slots : Clone(s)
    \/ \E t \in Threads, s \in Slots : PushWrite(t, s)
    \/ \E t \in Threads : PushPush(t)
    \/ \E t \in Threads, s \in Slots : ScopeWrite(t, s)
    \/ \E t \in Threads : ScopePush(t)
    \/ \E t \in Threads, s \in Slots : Iter(t, s)
    \/ \E t \in Threads : NewChildrenRead(t)
    \/ \E t \in Threads : NewInnerRead(t)
    \/ \E t \in Threads : NextCall(t)
    \/ \E t \in Threads : DropIter(t)

SpecAlias == Init /\ [][NextAlias]_vars

\* SpecSeq: one thread runs every operation, one at a time
MainThread == CHOOSE t \in Threads : \A u \in Threads : t <= u

NextSeq ==
    \/ \E s \in Slots : Clone(s)
    \/ \E s \in Slots : Drop(s)
    \/ \E s \in Slots : PushWrite(MainThread, s)
    \/ PushPush(MainThread)
    \/ \E s \in Slots : ScopeWrite(MainThread, s)
    \/ ScopePush(MainThread)
    \/ \E s \in Slots : Iter(MainThread, s)
    \/ \E s \in Slots, v \in Probes : Contains(MainThread, s, v)
    \/ NewChildrenRead(MainThread)
    \/ NewInnerRead(MainThread)
    \/ NextCall(MainThread)
    \/ DropIter(MainThread)
    \/ ContainsReturn(MainThread)

SpecSeq == Init /\ [][NextSeq]_vars

\* SpecLive: the threads run a bounded number of calls through handles and
\* clones; a call and the return of each blocking lock acquisition are steps
\* of their own, so that a thread can be seen waiting
NextLive ==
    \/ \E s \in Slots : Clone(s)
    \/ \E t \in Threads, s \in Slots : PushCall(t, s)
    \/ \E t \in Threads : PushLock(t)
    \/ \E t \in Threads : PushPush(t)
    \/ \E t \in Threads, s \in Slots : ScopeCall(t, s)
    \/ \E t \in Threads : ScopeLock(t)
    \/ \E t \in Threads : ScopePush(t)
    \/ \E t \in Threads, s \in Slots : IterCall(t, s, "iter", None)
    \/ \E t \in Threads, s \in Slots, v \in Probes : IterCall(t, s, "contains", v)
    \/ \E t \in Threads : NewInnerRead(t)
    \/ \E t \in Threads : NewChildrenRead(t)
    \/ \E t \in Threads : NextCall(t)
    \/ \E t \in Threads : DropIter(t)
    \/ \E t \in Threads : ContainsReturn(t)

\* the steps in which a call that thread t has made goes on: a lock is
\* granted, the append is made, the call returns
Proceed(t) ==
    \/ PushLock(t) \/ PushPush(t)
    \/ ScopeLock(t) \/ ScopePush(t)
    \/ NewInnerRead(t) \/ NewChildrenRead(t)
    \/ ContainsReturn(t)

\* a thread inside a call is scheduled, and a lock that stays free is granted
\* to a thread that waits for it; when the caller of iter() calls next or
\* drops the iterator is up to the caller
SpecLive == InitLive /\ [][NextLive]_vars /\ \A t \in Threads : WF_vars(Proceed(t))


Range(q) == {q[i] : i \in 1..Len(q)}
IsPrefix(p, q) == Len(p) <= Len(q) /\ SubSeq(q, 1, Len(p)) = p

\* the nodes above n, by the scope() calls that created them
RECURSIVE AncestorsOf(_)
AncestorsOf(n) == IF parent[n] = None THEN {} ELSE {parent[n]} \cup AncestorsOf(parent[n])
DescendantsOf(n) == {m \in 1..nalloc : n \in AncestorsOf(m)}

\* thread t has a ScopedVecIterator that iter() returned to it
Traversing(t) == op[t] = "iter" /\ stack[t] # <<>>
\* the node of the handle thread t called iter() or contains() on
Start(t) == handle[self[t]]

\* ---- claims ----------------------------------------------------------------
\* C1 (visibility law): with no writer running during the traversal, what
\* iter(H) has yielded is at every moment a prefix of H's visible sequence --
\* own elements in push order, then each child's sequence in the order the
\* children were created, recursively -- and once next() has returned None it
\* is the whole visible sequence.
VisibilityLaw ==
    \A t \in Threads :
        Traversing(t) =>
            /\ IsPrefix(yielded[t], Visible(Start(t)))
            /\ exhausted[t] => yielded[t] = Visible(Start(t))

\* a finished traversal of a node with two children that hold one element each
VisibilityWitness ==
    \E t \in Threads :
        /\ Traversing(t) /\ exhausted[t]
        /\ Len(children[Start(t)]) = 2
        /\ Len(yielded[t]) = 2
        /\ yielded[t][1][1] = children[Start(t)][1]
        /\ yielded[t][2][1] = children[Start(t)][2]

\* C2 (upward isolation): a traversal started on a handle to node C never
\* yields an element of the node whose scope() created C, nor of any node
\* further up.
UpwardIsolation ==
    \A t \in Threads :
        \A i \in 1..Len(yielded[t]) : yielded[t][i][1] \notin AncestorsOf(Start(t))

\* a finished, non-empty traversal of a child whose parent holds an element
UpwardWitness ==
    \E t \in Threads :
        /\ Traversing(t) /\ exhausted[t] /\ yielded[t] # <<>>
        /\ parent[Start(t)] # None
        /\ inner[parent[Start(t)]] # <<>>

\* C3 (sibling isolation): a traversal started on a handle to node A never
\* yields an element of a node B created by another scope() on A's parent,
\* nor of a descendant of B.
SiblingIsolation ==
    \A t \in Threads :
        \A i \in 1..Len(yielded[t]) :
            \A b \in 1..nalloc :
                (b # Start(t) /\ parent[b] # None /\ parent[b] = parent[Start(t)])
                    => yielded[t][i][1] \notin ({b} \cup DescendantsOf(b))

\* a finished, non-empty traversal of a node whose sibling holds an element
SiblingWitness ==
    \E t \in Threads :
        /\ Traversing(t) /\ exhausted[t] /\ yielded[t] # <<>>
        /\ \E b \in 1..nalloc :
              /\ b # Start(t) /\ parent[b] # None /\ parent[b] = parent[Start(t)]
              /\ inner[b] # <<>>

\* the elements of node n and of the nodes created below it
SubtreeItems(n) == UNION {Range(OwnItems(d)) : d \in {n} \cup DescendantsOf(n)}
\* the items one live iterator still has ahead of it if nothing is appended:
\* the rest of its own slice, and the children it has not taken yet
FrameAhead(f) ==
    {<<f.vec, i>> : i \in (f.pos + 1)..f.end}
    \cup UNION {Range(Visible(children[f.vec][j])) : j \in (f.cpos + 1)..f.cend}
\* the items thread t's traversal still has ahead of it
Ahead(t) ==
    UNION {FrameAhead(stack[t][k]) : k \in 1..Len(stack[t])}
    \cup (IF pending[t] # None THEN Range(Visible(pending[t])) ELSE {})
\* the items thread t's traversal has yielded or still has ahead of it
Promised(t) == Range(yielded[t]) \cup Ahead(t)

\* C4 (downward visibility): when iter(P) returns, every element then stored
\* in P's node or in a node created below it is yielded or ahead of the
\* traversal; no step of any thread takes an element out of what is yielded
\* or ahead; and when next() returns None nothing is ahead any more.  So
\* every element pushed below P before the traversal was created is yielded
\* by a traversal that runs to exhaustion, whatever the other threads do.
DownwardVisibility ==
    [][\A t \in Threads :
          Traversing(t)' =>
              /\ IF Traversing(t)
                 THEN Promised(t) \subseteq Promised(t)'
                 ELSE SubtreeItems(Start(t))' \subseteq Promised(t)'
              /\ exhausted'[t] => Ahead(t)' = {}]_vars

\* a finished traversal that yielded an element of a child of a child
DownwardWitness ==
    \E t \in Threads :
        /\ Traversing(t) /\ exhausted[t]
        /\ \E i \in 1..Len(yielded[t]) :
              LET d == yielded[t][i][1] IN
              /\ parent[d] # None
              /\ parent[parent[d]] = Start(t)

\* the slots that keep a handle obtained for the same node as slot s
AliasesOf(s) == {r \in Slots : r[1] = s[1] /\ handle[r] # None}

\* C5 (aliasing): a handle and its clones refer to one node.  Whatever was
\* pushed and scoped through any of them, a traversal run to its end through
\* one of them has yielded the visible sequence of each of them, and a
\* traversal run to its end from a node above has yielded every element
\* stored through any of them.
Aliasing ==
    \A t \in Threads :
        (Traversing(t) /\ exhausted[t]) =>
            /\ \A r \in AliasesOf(self[t]) : yielded[t] = Visible(handle[r])
            /\ \A r \in Slots :
                  (handle[r] # None /\ self[t][1] \in AncestorsOf(r[1]))
                      => Range(OwnItems(handle[r])) \subseteq Range(yielded[t])

\* a finished traversal through a clone, of a node that holds two elements,
\* while the handle the clone was made from is still kept
AliasingWitness ==
    \E t \in Threads :
        /\ Traversing(t) /\ exhausted[t]
        /\ self[t][2] > 1
        /\ handle[<<self[t][1], 1>>] # None
        /\ Len(inner[Start(t)]) = 2
        /\ Len(yielded[t]) = 2

\* the nodes a traversal from node n can reach through the children Vecs
RECURSIVE Reach(_)
Reach(n) == {n} \cup UNION {Reach(children[n][i]) : i \in 1..Len(children[n])}

\* C6 (orphan survival): a step that drops a caller's handle leaves every
\* handle the callers still keep as it was: its node and all nodes below it
\* stay alive with the same elements, children and lock states (so push and
\* scope on it go on exactly as before), and its visible sequence is the
\* same as before the drop.
OrphanSurvival ==
    [][\A s \in Slots :
          (handle[s] # None /\ handle'[s] = None) =>
              \A c \in Slots :
                  handle'[c] # None =>
                      /\ handle'[c] = handle[c]
                      /\ Reach(handle[c]) \subseteq live'
                      /\ \A d \in Reach(handle[c]) :
                            /\ inner'[d] = inner[d]
                            /\ children'[d] = children[d]
                            /\ innerLock'[d] = innerLock[d]
                            /\ childLock'[d] = childLock[d]
                      /\ Visible(handle[c])' = Visible(handle[c])]_vars

\* the root is dead, and a traversal of a node that was below it has run to
\* its end and yielded an element of that node and one of its child
OrphanWitness ==
    \E t \in Threads :
        /\ RootNode \notin live
        /\ Traversing(t) /\ exhausted[t]
        /\ Len(yielded[t]) = 2
        /\ yielded[t][1][1] = Start(t)
        /\ parent[yielded[t][2][1]] = Start(t)

\* C7 (membership consistency): with no writer running meanwhile,
\* contains(H, v) returns true exactly when v equals an element of H's
\* visible sequence -- an element of H's node or of a node below it -- and
\* false otherwise, also for an empty node.
MembershipConsistency ==
    \A t \in Threads :
        pc[t] = "contains_ret" =>
            (ret[t] <=> \E item \in Range(Visible(Start(t))) : Deref(item) = arg[t])

\* contains returns true for a value that is not the first element of the
\* visible sequence and is stored in a node below the handle's node
MembershipWitness ==
    \E t \in Threads :
        /\ pc[t] = "contains_ret" /\ ret[t]
        /\ Len(yielded[t]) = 2
        /\ yielded[t][1][1] = Start(t)
        /\ yielded[t][2][1] # Start(t)

\* C8 (frame of the writers): the step in which push(H, v) appends changes
\* the element sequence of H's node to the old one with v at its end, and no
\* other sequence; the step in which scope(H) appends changes the child
\* sequence of H's node to the old one with one node at its end that has no
\* elements and no children and is no child of any node yet, and no other
\* sequence; the steps in which they take their write lock change no
\* sequence at all.
WriterFrame ==
    [][\A t \in Threads :
          /\ (pc[t] = "push_push" /\ pc'[t] = "idle") =>
                 /\ inner' = [inner EXCEPT ![Start(t)] = Append(inner[Start(t)], arg[t])]
                 /\ children' = children
                 /\ live' = live
          /\ (pc[t] = "scope_push" /\ pc'[t] = "idle") =>
                 /\ children' = [children EXCEPT ![Start(t)] = Append(children[Start(t)], new[t])]
                 /\ inner' = inner
                 /\ live' = live
                 /\ inner[new[t]] = <<>> /\ children[new[t]] = <<>>
                 /\ \A m \in Nodes : new[t] \notin Range(children[m])
          /\ (pc[t] = "idle" /\ pc'[t] \in MutPcs) =>
                 /\ inner' = inner
                 /\ children' = children]_vars

\* a node that was pushed to twice and a node that was scoped twice
WriterFrameWitness ==
    /\ \E n \in live : Len(inner[n]) = 2
    /\ \E m \in live : Len(children[m]) = 2

\* the part of the state that a step of thread t's traversal or contains changes
IterState(t) == <<pc[t], stack[t], pending[t], yielded[t], exhausted[t]>>

\* C9 (append-only): in every step, whichever operation takes it, each node
\* that exists before and after has its old element sequence as a prefix of
\* the new one and its old child sequence as a prefix of the new one; a node
\* that was freed never comes back; and a step of a traversal or of contains
\* leaves every sequence as it was.
AppendOnly ==
    [][/\ \A n \in live \cap live' :
            /\ IsPrefix(inner[n], inner'[n])
            /\ IsPrefix(children[n], children'[n])
       /\ \A n \in 1..nalloc : n \notin live => n \notin live'
       /\ (\E t \in Threads : /\ (op[t] # "none" \/ op'[t] # "none")
                               /\ IterState(t)' # IterState(t))
            => inner' = inner /\ children' = children]_vars

\* a traversal has yielded both elements of a node that was pushed to twice,
\* after a node was freed
AppendOnlyWitness ==
    /\ Cardinality(live) < nalloc
    /\ \E t \in Threads : /\ Traversing(t)
                           /\ \E n \in live : /\ Len(inner[n]) = 2
                                               /\ Range(OwnItems(n)) \subseteq Range(yielded[t])

\* the nodes on the active path of thread t's traversal: those whose two
\* reader locks it holds
HeldBy(t) == {stack[t][i].vec : i \in 1..Len(stack[t])}
\* the nodes whose element lock thread t holds: the path, and the node it is
\* entering between inner.read() and children.read()
InnerHeldBy(t) == HeldBy(t) \cup (IF pc[t] = "new_children" THEN {pending[t]} ELSE {})
\* the threads inside push on node n, and inside scope on node n
Pushing(n) == {u \in Threads : pc[u] = "push_push" /\ Start(u) = n}
Scoping(n) == {u \in Threads : pc[u] = "scope_push" /\ Start(u) = n}

\* C10 (writer blocking by a traversal): while a node is on the active path
\* of a traversal, no push and no scope on it, through whichever handle, is
\* past its write lock, and its two sequences stay as they are until the
\* traversal lets the node go; the readers of a node's locks are exactly the
\* traversals that have it on their path (or are entering it), so that a
\* node on no traversal's path has no reader and its locks are free to any
\* writer unless another writer holds them.
WriterBlocking ==
    /\ [](\A n \in Nodes :
            /\ (\E t \in Threads : n \in HeldBy(t)) =>
                   /\ Pushing(n) = {} /\ Scoping(n) = {}
                   /\ ~innerLock[n].writer /\ ~childLock[n].writer
            /\ innerLock[n].readers = Cardinality({t \in Threads : n \in InnerHeldBy(t)})
            /\ childLock[n].readers = Cardinality({t \in Threads : n \in HeldBy(t)})
            /\ innerLock[n].writer <=> Pushing(n) # {}
            /\ childLock[n].writer <=> Scoping(n) # {})
    /\ [][\A n \in Nodes, t \in Threads :
             (n \in HeldBy(t) /\ n \in HeldBy(t)') =>
                 inner'[n] = inner[n] /\ children'[n] = children[n]]_vars

\* a finished traversal still holds its start node, of which an idle thread
\* has an alias it could push through, while a descendant that the traversal
\* has left is free to writers
WriterBlockingWitness ==
    \E t, u \in Threads, s \in Slots :
        /\ Traversing(t) /\ exhausted[t]
        /\ HeldBy(t) = {Start(t)}
        /\ pc[u] = "idle"
        /\ s # self[t] /\ handle[s] = Start(t) /\ ~Borrowed(s)
        /\ npush < MaxPush
        /\ \E m \in DescendantsOf(Start(t)) :
               m \in live /\ innerLock[m] = Unlocked /\ childLock[m] = Unlocked

\* thread t's traversal is dropped before it is exhausted: the caller drops
\* its iterator, or any() returns true and drops the temporary one
Cancels(t) ==
    \/ pc[t] = "iter" /\ ~exhausted[t] /\ pc'[t] = "idle"
    \/ op[t] = "contains" /\ pc[t] # "contains_ret" /\ pc'[t] = "contains_ret" /\ ret'[t]

\* C11 (cancellation): the step that drops a traversal before exhaustion
\* leaves it with no node on its path and no lock: every lock's readers are
\* then exactly the other threads' traversals, a node that only this
\* traversal held is free to a writer, and no sequence changes in that step;
\* nor does any sequence change in any other step of a traversal or contains.
Cancellation ==
    [][\A t \in Threads :
          /\ Cancels(t) =>
                /\ InnerHeldBy(t)' = {}
                /\ \A n \in Nodes :
                      /\ innerLock'[n].readers =
                            Cardinality({u \in Threads \ {t} : n \in InnerHeldBy(u)})
                      /\ childLock'[n].readers =
                            Cardinality({u \in Threads \ {t} : n \in HeldBy(u)})
                      /\ (n \in InnerHeldBy(t) /\ \A u \in Threads \ {t} : n \notin InnerHeldBy(u))
                            => CanWrite(innerLock'[n]) /\ CanWrite(childLock'[n])
                /\ inner' = inner /\ children' = children
          /\ ((op[t] # "none" \/ op'[t] # "none") /\ IterState(t)' # IterState(t))
                => inner' = inner /\ children' = children]_vars

\* contains has returned true on a match in a descendant with another element
\* still to come, and no lock is held
CancellationWitness ==
    \E t \in Threads :
        /\ pc[t] = "contains_ret" /\ ret[t] /\ arg[t] = 1
        /\ \E c \in DescendantsOf(Start(t)) : inner[c] = <<1, 2>>
        /\ \A n \in Nodes : innerLock[n] = Unlocked /\ childLock[n] = Unlocked

\* the frame of node n in thread t's stack
FrameOf(t, n) == stack[t][CHOOSE i \in 1..Len(stack[t]) : stack[t][i].vec = n]

\* C12 (path-shaped lock set): the nodes a traversal holds are a chain: the
\* first is its starting node and each further one is the child at which its
\* predecessor's child cursor stands (so one node per level and never two
\* siblings); the node it is entering is the child under the cursor of the
\* last one; the locks' readers are these holdings and nothing else; a node
\* enters the chain only as that node being entered, and leaves a continuing
\* traversal only when its own elements and its children are used up.
PathShaped ==
    /\ [](\A t \in Threads :
            /\ stack[t] # <<>> => stack[t][1].vec = Start(t)
            /\ \A i \in 2..Len(stack[t]) :
                  /\ stack[t][i - 1].cpos >= 1
                  /\ stack[t][i].vec = children[stack[t][i - 1].vec][stack[t][i - 1].cpos]
                  /\ parent[stack[t][i].vec] = stack[t][i - 1].vec
            /\ pc[t] \in {"new_inner", "new_children"} =>
                  IF stack[t] = <<>> THEN pending[t] = Start(t)
                  ELSE /\ Last(stack[t]).cpos >= 1
                       /\ pending[t] = children[Last(stack[t]).vec][Last(stack[t]).cpos]
            /\ Cardinality(HeldBy(t)) = Len(stack[t])
            /\ \A n \in Nodes :
                  /\ childLock[n].readers = Cardinality({u \in Threads : n \in HeldBy(u)})
                  /\ innerLock[n].readers = Cardinality({u \in Threads : n \in InnerHeldBy(u)}))
    /\ [][\A t \in Threads, n \in Nodes :
             /\ (n \in HeldBy(t)' /\ n \notin HeldBy(t)) =>
                    pc[t] = "new_children" /\ pending[t] = n
             /\ (n \in HeldBy(t) /\ n \notin HeldBy(t)' /\ stack'[t] # <<>>) =>
                    InnerDone(FrameOf(t, n)) /\ ChildrenDone(FrameOf(t, n))]_vars

\* a traversal is inside the second child of its starting node after it
\* yielded an element of the first
PathShapedWitness ==
    \E t \in Threads :
        /\ Traversing(t) /\ Len(stack[t]) = 2
        /\ stack[t][1].cpos = 2
        /\ \E i \in 1..Len(yielded[t]) : yielded[t][i][1] = children[Start(t)][1]

\* C13 (the starting node's locks span the traversal's lifetime): inside
\* iter(H) the element lock of H's node is read-held before the child lock is
\* asked for; from the return of iter(H) on, before any next call, while
\* descendants are entered and drained and after next returned None, the
\* first iterator of the traversal is the one of H's node and holds both of
\* its locks, which no writer holds; and no step but the drop of the
\* traversal takes H's node off its path.
StartLocksSpan ==
    /\ [](\A t \in Threads : op[t] = "iter" =>
            IF pc[t] = "new_children" /\ stack[t] = <<>>
            THEN /\ pending[t] = Start(t)
                 /\ innerLock[Start(t)].readers >= 1 /\ ~innerLock[Start(t)].writer
                 /\ innerLock[Start(t)].readers =
                       Cardinality({u \in Threads : Start(t) \in InnerHeldBy(u)})
            ELSE /\ stack[t] # <<>>
                 /\ stack[t][1].vec = Start(t)
                 /\ innerLock[Start(t)].readers >= 1 /\ ~innerLock[Start(t)].writer
                 /\ childLock[Start(t)].readers >= 1 /\ ~childLock[Start(t)].writer
                 /\ childLock[Start(t)].readers =
                       Cardinality({u \in Threads : Start(t) \in HeldBy(u)}))
    /\ [][\A t \in Threads :
             (op[t] = "iter" /\ Start(t) \in HeldBy(t) /\ Start(t) \notin HeldBy(t)')
                 => pc[t] = "iter" /\ pc'[t] = "idle"]_vars

\* next has returned None after elements of a descendant were yielded, and
\* the traversal is the one reader of both locks of its starting node
StartLocksWitness ==
    \E t \in Threads :
        /\ Traversing(t) /\ exhausted[t]
        /\ \E i \in 1..Len(yielded[t]) : yielded[t][i][1] \in DescendantsOf(Start(t))
        /\ innerLock[Start(t)].readers = 1 /\ childLock[Start(t)].readers = 1

\* the elements of node n that thread t's traversal has yielded
YieldedOf(t, n) == {item \in Range(yielded[t]) : item[1] = n}

\* C14 (per-node snapshot): a node joins a traversal's path with cursors that
\* end at the elements and children it has at that moment, and while it is on
\* the path it has exactly these, so the bounds are those of the moment its
\* locks were taken; what is yielded of it lies within them; when the node
\* leaves a continuing traversal, or next returns None, all of its elements
\* up to the bound are yielded and all of its children up to the bound were
\* entered; and once it is off the path nothing more of it is yielded,
\* whatever is pushed to it later.
PerNodeSnapshot ==
    /\ [](\A t \in Threads :
            /\ \A i \in 1..Len(stack[t]) :
                  LET f == stack[t][i] IN
                    /\ f.end = Len(inner[f.vec]) /\ f.cend = Len(children[f.vec])
                    /\ f.pos <= f.end /\ f.cpos <= f.cend
                    /\ op[t] = "iter" => YieldedOf(t, f.vec) = {<<f.vec, k>> : k \in 1..f.pos}
            /\ (Traversing(t) /\ exhausted[t]) =>
                  /\ YieldedOf(t, Start(t)) = Range(OwnItems(Start(t)))
                  /\ stack[t][1].cpos = Len(children[Start(t)]))
    /\ [][\A t \in Threads, n \in Nodes :
             /\ (n \in HeldBy(t)' /\ n \notin HeldBy(t)) =>
                    /\ FrameOf(t, n)'.end = Len(inner[n])
                    /\ FrameOf(t, n)'.cend = Len(children'[n])
             /\ (op[t] = "iter" /\ n \in HeldBy(t) /\ n \notin HeldBy(t)' /\ stack'[t] # <<>>) =>
                    /\ YieldedOf(t, n)' = Range(OwnItems(n))
                    /\ FrameOf(t, n).cpos = Len(children[n])
             /\ (Traversing(t) /\ Traversing(t)' /\ n \notin HeldBy(t)') =>
                    YieldedOf(t, n)' = YieldedOf(t, n)]_vars

\* next has returned None; an element of a descendant was yielded, and a
\* descendant the traversal had already left holds an element, pushed
\* later, that was not
PerNodeSnapshotWitness ==
    \E t \in Threads :
        /\ Traversing(t) /\ exhausted[t]
        /\ \E c, d \in DescendantsOf(Start(t)) :
              /\ inner[c] = <<2>> /\ YieldedOf(t, c) = {}
              /\ inner[d] = <<1>> /\ YieldedOf(t, d) = {<<d, 1>>}

\* a is b with some of its entries left out
RECURSIVE IsSubseq(_, _)
IsSubseq(a, b) ==
    IF a = <<>> THEN TRUE
    ELSE IF b = <<>> THEN FALSE
    ELSE IF Head(a) = Head(b) THEN IsSubseq(Tail(a), Tail(b))
    ELSE IsSubseq(a, Tail(b))

\* C15 as claimed (consistent view): what a traversal has yielded when next
\* returns None is the visible sequence its handle had at one instant
\* between the call of iter() and that None.
ConsistentView ==
    \A t \in Threads : (Traversing(t) /\ exhausted[t]) => yielded[t] \in views[t]

\* C15 as amended (a view that is consistent node by node): when next returns
\* None, for every node what was yielded of it is what the handle's visible
\* sequence held of it at one instant between the call of iter() and that
\* None, an instant that may differ from node to node; and the yielded
\* sequence keeps the order of the visible sequence.
NodewiseConsistentView ==
    \A t \in Threads : (Traversing(t) /\ exhausted[t]) =>
        /\ \A n \in Nodes : \E v \in views[t] :
               YieldedOf(t, n) = {item \in Range(v) : item[1] = n}
        /\ IsSubseq(yielded[t], Visible(Start(t)))

\* next has returned None on a sequence that the handle never had as its
\* visible sequence
NodewiseWitness ==
    \E t \in Threads :
        /\ Traversing(t) /\ exhausted[t]
        /\ yielded[t] # <<>>
        /\ yielded[t] \notin views[t]

\* thread t is inside a call of push, scope, iter, next or contains
Started(t) == pc[t] \notin {"idle", "iter"}
\* thread t waits for a lock that it cannot be given
Blocked(t) ==
    /\ pc[t] \in {"push_write", "scope_write", "new_inner", "new_children"}
    /\ ~ENABLED Proceed(t)

WriterIndependence ==
    /\ \A n \in Nodes :
          /\ innerLock[n].writer <=> Pushing(n) # {}
          /\ childLock[n].writer <=> Scoping(n) # {}
          /\ Cardinality(Pushing(n)) <= 1 /\ Cardinality(Scoping(n)) <= 1
    /\ \A u \in Threads, s \in Slots :
          (pc[u] = "idle" /\ handle[s] # None /\ ~Borrowed(s)) =>
              /\ (npush < MaxPush /\ Pushing(handle[s]) = {}
                      /\ \A t \in Threads : handle[s] \notin InnerHeldBy(t))
                    => ENABLED PushWrite(u, s)
              /\ (nalloc < MaxNodes /\ Scoping(handle[s]) = {}
                      /\ \A t \in Threads : handle[s] \notin HeldBy(t))
                    => ENABLED ScopeWrite(u, s)

\* a push and a scope are past their locks on the same node at the same time
WriterIndependenceWitness ==
    \E t, u \in Threads :
        /\ pc[t] = "push_push" /\ pc[u] = "scope_push"
        /\ Start(t) = Start(u)

RECURSIVE Below(_, _)
Below(n, k) ==
    IF k = 0 THEN {}
    ELSE Range(children[n]) \cup UNION {Below(c, k - 1) : c \in Range(children[n])}

\* C19 (tree shape): a node stands in at most one child sequence and at most
\* once in it, and every child is a live node; no node is reached from
\* itself by child links; a step that makes a clone changes no child
\* sequence; and a traversal has the nodes of its path pairwise distinct and
\* has yielded no element twice.
TreeShape ==
    /\ [](\A m, n \in Nodes : \A i \in 1..Len(children[m]), j \in 1..Len(children[n]) :
                children[m][i] = children[n][j] => (m = n /\ i = j))
    /\ [](\A m \in live : Range(children[m]) \subseteq live)
    /\ [](\A m \in Nodes : m \notin Below(m, MaxNodes))
    /\ [](\A t \in Threads :
                /\ Cardinality(HeldBy(t)) = Len(stack[t])
                /\ Cardinality(Range(yielded[t])) = Len(yielded[t]))
    /\ [][(\E s \in Slots : s[2] > 1 /\ handle[s] = None /\ handle'[s] # None)
             => children' = children /\ inner' = inner /\ live' = live]_vars

\* with a clone about, a traversal has come to None over a tree of three
\* nodes and two elements
TreeShapeWitness ==
    /\ Clones # {}
    /\ nalloc = 3
    /\ \E t \in Threads : Traversing(t) /\ exhausted[t] /\ Len(yielded[t]) = 2

\* C20 (bracketing of a concurrent traversal): every element a traversal has
\* yielded is an element of its handle's node or of a descendant, and the
\* yielded sequence is a subsequence of the handle's visible sequence, at the
\* None of next() as before it; and once next() has returned None, the
\* visible sequence the handle had at the instant iter() held both locks of
\* its node is a subsequence of the yielded sequence.
Bracketing ==
    \A t \in Threads : Traversing(t) =>
        /\ Range(yielded[t]) \subseteq
               {item \in Range(Visible(Start(t))) : item[1] \in Reach(Start(t))}
        /\ IsSubseq(yielded[t], Visible(Start(t)))
        /\ exhausted[t] => IsSubseq(atLock[t], yielded[t])

\* next has returned None on a sequence that lies strictly between the two:
\* a writer pushed ahead of the traversal and another push came too late
BracketingWitness ==
    \E t \in Threads :
        /\ Traversing(t) /\ exhausted[t]
        /\ atLock[t] # yielded[t]
        /\ yielded[t] # Visible(Start(t))
        /\ Cardinality(views[t]) = 3
====
